---- MODULE Spec2Model ----
(***************************************************************************)
(* The periodic distributed job scheduler of components/server:            *)
(* JobRunner.start and JobRunner.run (src/components/server/src/jobs/      *)
(* runner.ts), run by several server replicas that share one lock store    *)
(* (RedisMutex), one job state store (JobStateDbImpl) and one metrics      *)
(* sink.  Time is discrete and kept by clocks relative to the events the   *)
(* code times (a timer's remaining wait, the time an attempt has held its  *)
(* lock, a lock's remaining duration), each capped at the interval it is   *)
(* compared with.  Every asynchronous wait of the code (lock acquisition,  *)
(* getState, job.run, setState, the minimum-hold timeout) is a separate    *)
(* step that may take any amount of time.  A call of run() that waits in   *)
(* mutex.using has done nothing yet: such calls are counted per job, and a *)
(* call gets a frame when it enters the lock scope.                        *)
(***************************************************************************)
EXTENDS Integers, Sequences, FiniteSets, TLC

VARIABLES
    jobs,       \* the jobs array of start(): a sequence of Job records
    runner,     \* replica -> [status, disposables]
    pending,    \* job name -> the calls of JobRunner.run waiting in mutex.using
    att,        \* the calls of JobRunner.run inside the lock scope: id -> frame
    done,       \* the attempt that returned last, as it returned
    lock,       \* the coordination store: resource -> [holder, ttl]
    jobState,   \* the job state store: job name -> [present, state]
    metrics,    \* the metrics sink: job name -> [started, ok, fail, observed]
    hist,       \* per job: timer ticks, time since the last lock acquisition,
                \* runs persisted and, where the starts of runs are timed, the
                \* time since the start of the last run that succeeded
    faults      \* infrastructure faults injected so far (store errors, lock expiry)

vars == <<jobs, runner, pending, att, done, lock, jobState, metrics, hist, faults>>

----------------------------------------------------------------------------
(* Bounds of the model *)

\* the timer ticks of a behaviour, over all replicas and jobs
MaxTicks == 1

\* the infrastructure faults of a behaviour: a rejection of mutex.using
\* other than ResourceLockedError, of getState or of setState, and a lock
\* reclaimed by the store
MaxFaults == 1

Min(x, y) == IF x <= y THEN x ELSE y
Max(x, y) == IF x >= y THEN x ELSE y

----------------------------------------------------------------------------
(* The Job contract: runner.ts 26-31 *)

JobNames == {"A", "B", "C"}

\* lockedResources is optional: absent is modelled by [present |-> FALSE].
Absent == [present |-> FALSE, value |-> <<>>]
Present(v) == [present |-> TRUE, value |-> v]

\* Job A is the counting job, which returns {count: previousState.count + 1};
\* job B is an opaque body that may return any value; job C keeps no state
\* and returns undefined.
CountingJob == [name |-> "A", frequencyMs |-> 2, lockedResources |-> Absent]

\* the counting job at a shorter interval
QuickJob == [CountingJob EXCEPT !.frequencyMs = 1]

OpaqueJob == [name |-> "B", frequencyMs |-> 1, lockedResources |-> Present(<<"RB">>)]

StatelessJob == [name |-> "C", frequencyMs |-> 1, lockedResources |-> Present(<<"RC">>)]

\* the opaque job with two locked resources, one of them shared with the
\* stateless job
SharingJob == [OpaqueJob EXCEPT !.lockedResources = Present(<<"RB", "RC">>)]

\* The job registered under a name in the jobs array of start().
Job(name) == jobs[CHOOSE i \in 1..Len(jobs) : jobs[i].name = name]

Registered == {jobs[i].name : i \in 1..Len(jobs)}

Replicas == DOMAIN runner

\* The interval of a job name; the clocks that measure the spacing of a
\* job's attempts are capped at it.
Interval(name) == IF \E i \in 1..Len(jobs) : jobs[i].name = name THEN Job(name).frequencyMs ELSE 0

Resources == {"A", "B", "C", "R", "RB", "RC"}

----------------------------------------------------------------------------
(* JavaScript values returned by job.run and kept by the state store *)

Undefined == [k |-> "undefined", n |-> 0]
Null == [k |-> "null", n |-> 0]
Num == [k |-> "number", n |-> 7]
Str == [k |-> "string", n |-> 0]
Bool == [k |-> "boolean", n |-> 0]
Obj(c) == [k |-> "object", n |-> c]

\* JavaScript's typeof: null reports "object".
TypeOf(v) == IF v.k = "null" THEN "object" ELSE v.k

\* A structured value in the sense of the Job contract: an object, not a
\* primitive (null is a primitive).
IsStructured(v) == v.k = "object"

\* The body of the counting job: {count: previousState.count + 1}, or
\* {count: 1} when there is no previous state.
CountingReturn(prev) == IF prev.k = "object" THEN Obj(prev.n + 1) ELSE Obj(1)

\* What job.run(prev) may resolve with.
JobReturns(j, prev) ==
    CASE j = "A" -> {CountingReturn(prev)}
      [] j = "B" -> {Undefined, Null, Num, Str, Bool, Obj(1)}
      [] OTHER -> {Undefined}

----------------------------------------------------------------------------
(* Attempts: the frames of JobRunner.run *)

NewAttempt(j) ==
    [job |-> j, pc |-> "acquiring",
     held |-> 0, acqGap |-> 0, sinceRun |-> 0, runGap |-> 0,
     prev |-> Undefined, ret |-> Undefined, log |-> <<>>]

AttIds == DOMAIN att

\* The id of a frame is the name of its job and a number: the smallest one
\* that no frame of the job in the lock scope uses.
FreeId(j) == <<j, CHOOSE k \in 1..(Cardinality(AttIds) + 1) : <<j, k>> \notin AttIds>>

\* the holder of a resource that no attempt holds
NoHolder == <<>>

\* What is left of a frame when run() returns: its log and the time it
\* held the lock.
Outcome(t) == [job |-> t.job, pc |-> "resolved", held |-> t.held, log |-> t.log]

NoAttempt == [Outcome(NewAttempt("none")) EXCEPT !.pc = "none"]

Has(t, e) == \E i \in 1..Len(t.log) : t.log[i] = e

Count(t, e) == Cardinality({i \in 1..Len(t.log) : t.log[i] = e})

\* e1 occurs in the log of t, and every e2 comes after it
Before(t, e1, e2) ==
    /\ Has(t, e1)
    /\ \A i, k \in 1..Len(t.log) : (t.log[i] = e1 /\ t.log[k] = e2) => i < k

Emit(t, es) == [t EXCEPT !.log = @ \o es]

\* the frames in flight after the frame a returned
Returned(a) == [b \in AttIds \ {a} |-> att[b]]

----------------------------------------------------------------------------
(* The lock request of an attempt: runner.ts 84 *)

\* a resource list of the name of the job alone
LockResourcesNameOnly(job) == <<job.name>>

\* a resource list without the name of the job
LockResourcesUnnamed(job) == IF job.lockedResources.present THEN job.lockedResources.value ELSE <<>>

\* a resource list led by one name for every job
LockResourcesShared(job) ==
    <<"R", job.name>> \o (IF job.lockedResources.present THEN job.lockedResources.value ELSE <<>>)

\* a resource list with the name of the job at its end
LockResourcesNameLast(job) ==
    (IF job.lockedResources.present THEN job.lockedResources.value ELSE <<>>) \o <<job.name>>

\* [job.name, ...(job.lockedResources || [])]
LockResources(job) ==
    <<job.name>> \o (IF job.lockedResources.present THEN job.lockedResources.value ELSE <<>>)

\* the duration handed to mutex.using
LockDuration(job) == job.frequencyMs

ResourceSet(job) == {LockResources(job)[i] : i \in 1..Len(LockResources(job))}

----------------------------------------------------------------------------
(* The distributed mutex (RedisMutex.using), from its contract *)

\* All resources of the request are free: acquisition is all-or-nothing.
MutexFree(rs) == \A x \in rs : lock[x].holder = NoHolder

MutexAcquired(a, rs, duration) ==
    [x \in Resources |-> IF x \in rs THEN [holder |-> a, ttl |-> duration]
                                     ELSE lock[x]]

\* Release frees only what the releasing attempt still holds.
MutexReleased(a) ==
    [x \in Resources |-> IF lock[x].holder = a THEN [holder |-> NoHolder, ttl |-> 0]
                                               ELSE lock[x]]

Holds(a) == \E x \in Resources : lock[x].holder = a

----------------------------------------------------------------------------
(* Metrics (prometheus-metrics): counters keyed by job name *)

Bump(m, j, field) == [m EXCEPT ![j][field] = @ + 1]

ReportJobStarted(m, j) == Bump(m, j, "started")

ReportJobCompleted(m, j, success) == Bump(m, j, IF success THEN "ok" ELSE "fail")

ObserveDuration(m, j) == Bump(m, j, "observed")

\* the metric call an event of an attempt stands for
Report(m, j, e) ==
    CASE e = "started" -> ReportJobStarted(m, j)
      [] e = "completedOk" -> ReportJobCompleted(m, j, TRUE)
      [] e = "completedFail" -> ReportJobCompleted(m, j, FALSE)
      [] e = "observed" -> ObserveDuration(m, j)
      [] OTHER -> m

\* the counters after the metric calls among the events es, in order
RECURSIVE Recorded(_, _, _)
Recorded(m, j, es) == IF es = <<>> THEN m ELSE Recorded(Report(m, j, Head(es)), j, Tail(es))

\* the events t2 has logged since t
NewEvents(t, t2) == SubSeq(t2.log, Len(t.log) + 1, Len(t2.log))

----------------------------------------------------------------------------
(* Job state store (JobStateDbImpl): one record per job name *)

\* setState(name, state): the record of the job is replaced
SetState(js, j, v) == [js EXCEPT ![j] = [present |-> TRUE, state |-> v]]

----------------------------------------------------------------------------
\* The state after construction of the replicas rs, each wired with the
\* registry registry.
InitWith(registry, rs, timeRuns) ==
    /\ jobs = registry
    /\ runner = [r \in rs |-> [status |-> "new", disposables |-> <<>>]]
    /\ pending = [j \in JobNames |-> 0]
    /\ att = <<>>
    /\ done = NoAttempt
    /\ lock = [x \in Resources |-> [holder |-> NoHolder, ttl |-> 0]]
    /\ jobState = [j \in JobNames |-> [present |-> FALSE, state |-> Undefined]]
    /\ metrics = [j \in JobNames |-> [started |-> 0, ok |-> 0, fail |-> 0, observed |-> 0]]
    /\ hist = [ticks |-> [j \in JobNames |-> 0], timeRuns |-> timeRuns, reclaimed |-> FALSE,
               sinceAcq |-> [j \in JobNames |-> Interval(j)],
               sinceOkRun |-> [j \in JobNames |-> Interval(j)],
               persisted |-> [j \in JobNames |-> 0],
               attempts |-> [j \in JobNames |-> 0],
               crash |-> [pc |-> "none", prev |-> Undefined]]
    /\ faults = 0

\* Two replicas that run the counting job.
Init == InitWith(<<CountingJob>>, {"r1", "r2"}, FALSE)

\* Two replicas that run the counting job at the shorter interval, the
\* starts of its runs timed.
InitSpacing == InitWith(<<QuickJob>>, {"r1", "r2"}, TRUE)

\* Two replicas that run the counting job at the shorter interval.
InitQuick == InitWith(<<QuickJob>>, {"r1", "r2"}, FALSE)

\* Two replicas that run the opaque job.
InitOpaque == InitWith(<<OpaqueJob>>, {"r1", "r2"}, FALSE)

\* One replica that runs the counting job, at the shorter interval, and the
\* stateless job.
InitJobs == InitWith(<<QuickJob, StatelessJob>>, {"r1"}, FALSE)

\* One replica that runs the counting job at the shorter interval.
InitSolo == InitWith(<<QuickJob>>, {"r1"}, FALSE)

\* The counting job with every lockedResources and frequencyMs of the
\* sets below.
ResourceLists == {Absent, Present(<<>>), Present(<<"RB">>), Present(<<"RB", "RC">>),
                  Present(<<"RC", "RB">>)}

JobInputs ==
    {[CountingJob EXCEPT !.frequencyMs = f, !.lockedResources = l] :
        f \in {QuickJob.frequencyMs, CountingJob.frequencyMs}, l \in ResourceLists}

\* One replica that runs one of the jobs of JobInputs.
InitRequest == \E job \in JobInputs : InitWith(<<job>>, {"r1"}, FALSE)

\* One replica that runs the sharing job and the stateless job, whose
\* resource sets intersect.
InitShared == InitWith(<<SharingJob, StatelessJob>>, {"r1"}, FALSE)

----------------------------------------------------------------------------
(* JobRunner.start: runner.ts 47-73 *)

\* repeat(op, everyMilliseconds): a recurring timer, first due one interval
\* after it was armed.
Repeat(j, everyMilliseconds) == [job |-> j, wait |-> everyMilliseconds]

\* a loop that arms the timers only
NoImmediateRuns(r) == pending

\* a loop that awaits the attempt of its first job
ImmediateRunsAwaited(r) == [pending EXCEPT ![jobs[1].name] = @ + 1]

\* The loop of start() calls run(job) once per job of the registry: the
\* calls waiting in mutex.using after it.
ImmediateRuns(r) ==
    [j \in JobNames |-> pending[j] + Cardinality({i \in 1..Len(jobs) : jobs[i].name = j})]

\* The disposables pushed by the loop of start(): one repeat() per job.
ArmedTimers == [i \in 1..Len(jobs) |-> Repeat(jobs[i].name, jobs[i].frequencyMs)]

Start(r) ==
    /\ runner[r].status = "new"
    /\ pending' = ImmediateRuns(r)
    /\ runner' = [runner EXCEPT ![r] = [status |-> "started", disposables |-> ArmedTimers]]
    /\ UNCHANGED <<jobs, att, done, lock, jobState, metrics, hist, faults>>

\* the timer ticks so far, of all the jobs
RECURSIVE SumOver(_, _)
SumOver(f, S) == IF S = {} THEN 0 ELSE LET x == CHOOSE y \in S : TRUE IN f[x] + SumOver(f, S \ {x})

Ticks == SumOver(hist.ticks, JobNames)

\* a timer callback that skips the call while an attempt of its job is in
\* the lock scope
TimerTickGuarded(r, i) ==
    /\ runner[r].status = "started"
    /\ i \in 1..Len(runner[r].disposables)
    /\ runner[r].disposables[i].wait = 0
    /\ LET tm == runner[r].disposables[i] IN
        /\ Ticks < MaxTicks
        /\ \A a \in AttIds : att[a].job # tm.job
        /\ pending' = [pending EXCEPT ![tm.job] = @ + 1]
        /\ runner' = [runner EXCEPT ![r].disposables[i] = Repeat(tm.job, Job(tm.job).frequencyMs)]
        /\ hist' = [hist EXCEPT !.ticks[tm.job] = @ + 1]
    /\ UNCHANGED <<jobs, att, done, lock, jobState, metrics, faults>>

\* A recurring timer fires: the repeat callback calls run(job) and re-arms.
TimerTick(r, i) ==
    /\ runner[r].status = "started"
    /\ i \in 1..Len(runner[r].disposables)
    /\ runner[r].disposables[i].wait = 0
    /\ LET tm == runner[r].disposables[i] IN
        /\ Ticks < MaxTicks
        /\ pending' = [pending EXCEPT ![tm.job] = @ + 1]
        /\ runner' = [runner EXCEPT ![r].disposables[i] = Repeat(tm.job, Job(tm.job).frequencyMs)]
        /\ hist' = [hist EXCEPT !.ticks[tm.job] = @ + 1]
    /\ UNCHANGED <<jobs, att, done, lock, jobState, metrics, faults>>

\* a disposal that also drops the attempts in flight
DisposeAborting(r) ==
    /\ runner[r].status = "started"
    /\ runner' = [runner EXCEPT ![r].status = "disposed", ![r].disposables = <<>>]
    /\ att' = <<>>
    /\ pending' = [j \in JobNames |-> 0]
    /\ UNCHANGED <<jobs, done, lock, jobState, metrics, hist, faults>>

\* disposables.dispose(): every timer is cancelled; attempts in flight go on.
Dispose(r) ==
    /\ runner[r].status = "started"
    /\ runner' = [runner EXCEPT ![r].status = "disposed", ![r].disposables = <<>>]
    /\ UNCHANGED <<jobs, pending, att, done, lock, jobState, metrics, hist, faults>>

----------------------------------------------------------------------------
(* JobRunner.run: runner.ts 75-125 *)

\* runner.ts 94: stateAfter !== undefined && typeof stateAfter === "object"
ShouldPersist(stateAfter) == stateAfter # Undefined /\ TypeOf(stateAfter) = "object"

\* a catch that knows one kind of lock error only
IsResourceLocked(err) == err = "ResourceLockedError"

\* a test that takes every error for a lock error
IsAnyError(err) == TRUE

\* runner.ts 114: err instanceof ResourceLockedError || err instanceof ExecutionError
IsLockError(err) == err \in {"ResourceLockedError", "ExecutionError"}

\* a timeout one unit short of the interval
TimeoutShort(t) == t.held + 1 >= Job(t.job).frequencyMs

\* a timeout that never fires
TimeoutNever(t) == FALSE

\* a routine that does not wait for the timeout
TimeoutSkipped(t) == TRUE

\* runner.ts 87 and 110: the minimum-hold timeout, set at acquisition, has fired.
TimeoutElapsed(t) == t.held >= Job(t.job).frequencyMs

\* a run that is never handed the stored state
PreviousStateDropped(j) == Undefined

\* runner.ts 92: stateBefore?.state
PreviousState(j) == IF jobState[j].present THEN jobState[j].state ELSE Undefined

\* a routine that loads the state before it records the started metric
EnteredLoadsFirst(t) ==
    [Emit(t, <<"acquired", "getState", "started">>) EXCEPT !.pc = "getState", !.held = 0]

\* runner.ts 85-92: the routine runs synchronously to its first await: the
\* timeout is set, the duration timer started, the started metric recorded
\* and getState called.
Entered(t) ==
    [Emit(t, <<"acquired", "started", "getState">>) EXCEPT !.pc = "getState", !.held = 0]

\* a catch around mutex.using that reports a failed completion
CaughtReported(t, err) ==
    Emit(t, <<err, IF IsLockError(err) THEN "log.debug" ELSE "log.error", "completedFail">>)

\* runner.ts 113-124: the catch around mutex.using.
Caught(t, err) == Emit(t, <<err, IF IsLockError(err) THEN "log.debug" ELSE "log.error">>)

\* a call of job.run that passes no previous state
InvokedWithoutState(t, stateBefore) == [Emit(t, <<"run">>) EXCEPT !.pc = "running"]

\* runner.ts 93: job.run(stateBefore?.state)
Invoked(t, stateBefore) == [Emit(t, <<"run">>) EXCEPT !.pc = "running", !.prev = stateBefore]

\* a success path that leaves the duration unobserved
SucceededUnobserved(t) ==
    [Emit(t, <<"completedOk">>)
        EXCEPT !.pc = "holding", !.prev = Undefined, !.ret = Undefined, !.sinceRun = 0]

\* runner.ts 97-101, 108-110: the success path after the state was
\* handled, then finally up to await timeout.
Succeeded(t) ==
    [Emit(t, <<"completedOk", "observed">>)
        EXCEPT !.pc = "holding", !.prev = Undefined, !.ret = Undefined, !.sinceRun = 0]

\* a catch block that reports the completion as a success
FailedReportedOk(t) ==
    [Emit(t, <<"log.error", "completedOk", "observed">>)
        EXCEPT !.pc = "holding", !.prev = Undefined, !.ret = Undefined, !.sinceRun = 0]

\* a catch block that reports no completion
FailedUnreported(t) ==
    [Emit(t, <<"log.error", "observed">>)
        EXCEPT !.pc = "holding", !.prev = Undefined, !.ret = Undefined, !.sinceRun = 0]

\* runner.ts 102-110: the catch block, then finally up to await timeout.
Failed(t) ==
    [Emit(t, <<"log.error", "completedFail", "observed">>)
        EXCEPT !.pc = "holding", !.prev = Undefined, !.ret = Undefined, !.sinceRun = 0]

\* runner.ts 93-96: job.run resolved with stateAfter; setState is called
\* when line 94 says so.
Resolved(t, stateAfter) ==
    IF ShouldPersist(stateAfter)
    THEN [Emit(t, <<"settled", "setState">>) EXCEPT !.pc = "setState", !.ret = stateAfter]
    ELSE Succeeded(Emit(t, <<"settled">>))

\* an end of the routine that skips the release
ExitedUnreleased(t) == t

\* runner.ts 110-112: await timeout returned and the routine ended.
Exited(t) == Emit(t, <<"released">>)

\* the start of a run that succeeded is noted for the spacing of runs
NoteSuccess(h, t) == IF h.timeRuns THEN [h EXCEPT !.sinceOkRun[t.job] = t.sinceRun] ELSE h

\* mutex.using acquires the lock for a waiting call of run(job) and calls
\* the routine (84-92).
AcquireOK(j) ==
    /\ pending[j] > 0
    /\ LET job == Job(j)
           a == FreeId(j)
           t == [Entered(NewAttempt(j)) EXCEPT !.acqGap = hist.sinceAcq[j]] IN
        /\ MutexFree(ResourceSet(job))
        /\ lock' = MutexAcquired(a, ResourceSet(job), LockDuration(job))
        /\ att' = [b \in AttIds \cup {a} |-> IF b = a THEN t ELSE att[b]]
        /\ metrics' = Recorded(metrics, j, NewEvents(NewAttempt(j), t))
        /\ hist' = [hist EXCEPT !.sinceAcq[j] = 0, !.attempts[j] = @ + 1]
    /\ pending' = [pending EXCEPT ![j] = @ - 1]
    /\ UNCHANGED <<jobs, runner, done, jobState, faults>>

\* a rejected acquisition whose call goes back to wait for the lock
AcquireFailRetried(j, err) ==
    /\ pending[j] > 0
    /\ IF err = "ResourceLockedError"
       THEN ~MutexFree(ResourceSet(Job(j))) /\ faults' = faults
       ELSE faults < MaxFaults /\ faults' = faults + 1
    /\ LET t == Caught(NewAttempt(j), err) IN
        /\ done' = Outcome(t)
        /\ metrics' = Recorded(metrics, j, NewEvents(NewAttempt(j), t))
    /\ hist' = [hist EXCEPT !.attempts[j] = @ + 1]
    /\ UNCHANGED <<jobs, runner, pending, att, lock, jobState>>

\* mutex.using rejects without calling the routine; the catch of run()
\* (113-124) logs and returns.
AcquireFail(j, err) ==
    /\ pending[j] > 0
    /\ IF err = "ResourceLockedError"
       THEN ~MutexFree(ResourceSet(Job(j))) /\ faults' = faults
       ELSE faults < MaxFaults /\ faults' = faults + 1
    /\ LET t == Caught(NewAttempt(j), err) IN
        /\ done' = Outcome(t)
        /\ metrics' = Recorded(metrics, j, NewEvents(NewAttempt(j), t))
    /\ pending' = [pending EXCEPT ![j] = @ - 1]
    /\ hist' = [hist EXCEPT !.attempts[j] = @ + 1]
    /\ UNCHANGED <<jobs, runner, att, lock, jobState>>

\* getState resolves and job.run is invoked with stateBefore?.state (92-93).
GetStateOK(a) ==
    /\ att[a].pc = "getState"
    /\ LET t == [Invoked(att[a], PreviousState(att[a].job))
                   EXCEPT !.sinceRun = 0,
                          !.runGap = IF hist.timeRuns THEN hist.sinceOkRun[att[a].job] ELSE 0] IN
        /\ att' = [att EXCEPT ![a] = t]
        /\ metrics' = Recorded(metrics, att[a].job, NewEvents(att[a], t))
    /\ UNCHANGED <<jobs, pending, runner, done, lock, jobState, hist, faults>>

\* a rejection of getState that is swallowed: job.run is invoked without a
\* previous state
GetStateFailIgnored(a) ==
    /\ att[a].pc = "getState"
    /\ faults < MaxFaults
    /\ faults' = faults + 1
    /\ LET t == Invoked(Emit(att[a], <<"getStateRejected">>), Undefined) IN
        /\ att' = [att EXCEPT ![a] = t]
        /\ metrics' = Recorded(metrics, att[a].job, NewEvents(att[a], t))
    /\ UNCHANGED <<jobs, pending, runner, done, lock, jobState, hist>>

\* getState rejects: the catch block records the failure (102-110).
GetStateFail(a) ==
    /\ att[a].pc = "getState"
    /\ faults < MaxFaults
    /\ faults' = faults + 1
    /\ LET t == Failed(Emit(att[a], <<"getStateRejected">>)) IN
        /\ att' = [att EXCEPT ![a] = t]
        /\ metrics' = Recorded(metrics, att[a].job, NewEvents(att[a], t))
    /\ UNCHANGED <<jobs, pending, runner, done, lock, jobState, hist>>

\* a resolution of job.run that stores the result at once, before the call
\* of setState has completed
RunResolveStoring(a, stateAfter) ==
    /\ att[a].pc = "running"
    /\ stateAfter \in JobReturns(att[a].job, att[a].prev)
    /\ LET t == Resolved(att[a], stateAfter) IN
        /\ att' = [att EXCEPT ![a] = t]
        /\ metrics' = Recorded(metrics, att[a].job, NewEvents(att[a], t))
    /\ jobState' = IF ShouldPersist(stateAfter)
                   THEN SetState(jobState, att[a].job, stateAfter) ELSE jobState
    /\ hist' = NoteSuccess(hist, att[a])
    /\ UNCHANGED <<jobs, pending, runner, done, lock, faults>>

\* job.run resolves with stateAfter (93-101).
RunResolve(a, stateAfter) ==
    /\ att[a].pc = "running"
    /\ stateAfter \in JobReturns(att[a].job, att[a].prev)
    /\ LET t == Resolved(att[a], stateAfter) IN
        /\ att' = [att EXCEPT ![a] = t]
        /\ metrics' = Recorded(metrics, att[a].job, NewEvents(att[a], t))
    /\ hist' = NoteSuccess(hist, att[a])
    /\ UNCHANGED <<jobs, pending, runner, done, lock, jobState, faults>>

\* job.run rejects (102-110).
RunReject(a) ==
    /\ att[a].pc = "running"
    /\ LET t == Failed(Emit(att[a], <<"rejected">>)) IN
        /\ att' = [att EXCEPT ![a] = t]
        /\ metrics' = Recorded(metrics, att[a].job, NewEvents(att[a], t))
    /\ UNCHANGED <<jobs, pending, runner, done, lock, jobState, hist, faults>>

\* a setState that stores under the name of the last registered job
SetStateOKMiskeyed(a) ==
    /\ att[a].pc = "setState"
    /\ jobState' = SetState(jobState, jobs[Len(jobs)].name, att[a].ret)
    /\ LET t == Succeeded(Emit(att[a], <<"persisted">>)) IN
        /\ att' = [att EXCEPT ![a] = t]
        /\ metrics' = Recorded(metrics, att[a].job, NewEvents(att[a], t))
    /\ hist' = [hist EXCEPT !.persisted[att[a].job] = @ + 1]
    /\ UNCHANGED <<jobs, pending, runner, done, lock, faults>>

\* setState resolves: the state is stored, then the success is reported (95-101).
SetStateOK(a) ==
    /\ att[a].pc = "setState"
    /\ jobState' = SetState(jobState, att[a].job, att[a].ret)
    /\ LET t == Succeeded(Emit(att[a], <<"persisted">>)) IN
        /\ att' = [att EXCEPT ![a] = t]
        /\ metrics' = Recorded(metrics, att[a].job, NewEvents(att[a], t))
    /\ hist' = [hist EXCEPT !.persisted[att[a].job] = @ + 1]
    /\ UNCHANGED <<jobs, pending, runner, done, lock, faults>>

\* a rejection of setState after which the success is reported all the same
SetStateFailReportedOk(a) ==
    /\ att[a].pc = "setState"
    /\ faults < MaxFaults
    /\ faults' = faults + 1
    /\ LET t == Succeeded(Emit(att[a], <<"setStateRejected">>)) IN
        /\ att' = [att EXCEPT ![a] = t]
        /\ metrics' = Recorded(metrics, att[a].job, NewEvents(att[a], t))
    /\ UNCHANGED <<jobs, pending, runner, done, lock, jobState, hist>>

\* setState rejects: the catch block records the failure (102-110).
SetStateFail(a) ==
    /\ att[a].pc = "setState"
    /\ faults < MaxFaults
    /\ faults' = faults + 1
    /\ LET t == Failed(Emit(att[a], <<"setStateRejected">>)) IN
        /\ att' = [att EXCEPT ![a] = t]
        /\ metrics' = Recorded(metrics, att[a].job, NewEvents(att[a], t))
    /\ UNCHANGED <<jobs, pending, runner, done, lock, jobState, hist>>

\* await timeout returns, the routine ends, mutex.using releases the lock
\* and run() resolves (110-112).
ScopeExit(a) ==
    /\ a \in AttIds
    /\ att[a].pc = "holding"
    /\ TimeoutElapsed(att[a])
    /\ lock' = MutexReleased(a)
    /\ LET t == Exited(att[a]) IN
        /\ done' = Outcome(t)
        /\ metrics' = Recorded(metrics, att[a].job, NewEvents(att[a], t))
    /\ att' = Returned(a)
    /\ UNCHANGED <<jobs, pending, runner, jobState, hist, faults>>

----------------------------------------------------------------------------
(* The environment *)

\* The coordination store reclaims a lock whose duration has run out.
MutexExpire(a) ==
    /\ faults < MaxFaults
    /\ faults' = faults + 1
    /\ Holds(a)
    /\ \A x \in Resources : lock[x].holder = a => lock[x].ttl = 0
    /\ lock' = MutexReleased(a)
    /\ hist' = [hist EXCEPT !.reclaimed = TRUE]
    /\ UNCHANGED <<jobs, pending, runner, att, done, jobState, metrics>>

\* One unit of time passes: every clock moves by one, up to its cap.
Advance ==
    /\ runner' = [r \in Replicas |->
          [runner[r] EXCEPT !.disposables =
              [i \in DOMAIN @ |-> [@[i] EXCEPT !.wait = Max(@ - 1, 0)]]]]
    /\ att' = [a \in AttIds |->
          [att[a] EXCEPT
              !.held = Min(@ + 1, Interval(att[a].job)),
              !.sinceRun = IF att[a].pc = "running" /\ hist.timeRuns
                           THEN Min(@ + 1, Interval(att[a].job)) ELSE @]]
    /\ lock' = [x \in Resources |-> [lock[x] EXCEPT !.ttl = Max(@ - 1, 0)]]
    /\ hist' = [hist EXCEPT
          !.sinceAcq = [j \in JobNames |-> Min(@[j] + 1, Interval(j))],
          !.sinceOkRun = [j \in JobNames |->
                            IF hist.timeRuns THEN Min(@[j] + 1, Interval(j)) ELSE @[j]]]
    /\ UNCHANGED <<jobs, pending, done, jobState, metrics, faults>>

\* The process of replica r dies while its attempt a, the only call of
\* run() in flight, is in the lock scope: the routine stops where it is,
\* nothing is released or reported, and the timers of r are gone.
Crash(r, a) ==
    /\ faults < MaxFaults
    /\ faults' = faults + 1
    /\ runner[r].status = "started"
    /\ AttIds = {a}
    /\ \A j \in JobNames : pending[j] = 0
    /\ runner' = [runner EXCEPT ![r] = [status |-> "crashed", disposables |-> <<>>]]
    /\ att' = Returned(a)
    /\ hist' = [hist EXCEPT !.crash = [pc |-> att[a].pc, prev |-> att[a].prev]]
    /\ UNCHANGED <<jobs, pending, done, lock, jobState, metrics>>

\* The coordination store expires a lock whose owner is gone.
OrphanExpire(a) ==
    /\ a \notin AttIds
    /\ Holds(a)
    /\ \A x \in Resources : lock[x].holder = a => lock[x].ttl = 0
    /\ lock' = MutexReleased(a)
    /\ UNCHANGED <<jobs, pending, runner, att, done, jobState, metrics, hist, faults>>

\* await timeout returns and the routine ends, but the release of the lock
\* fails in the coordination store: mutex.using rejects with an
\* ExecutionError after the routine has run, the catch of run() takes it
\* for a failed acquisition (113-121), and the lock is left to expire.
ReleaseFails(a) ==
    /\ a \in AttIds
    /\ att[a].pc = "holding"
    /\ TimeoutElapsed(att[a])
    /\ Holds(a)
    /\ faults < MaxFaults
    /\ faults' = faults + 1
    /\ LET t == Caught(att[a], "ExecutionError") IN
        /\ done' = Outcome(t)
        /\ metrics' = Recorded(metrics, att[a].job, NewEvents(att[a], t))
    /\ att' = Returned(a)
    /\ UNCHANGED <<jobs, pending, runner, lock, jobState, hist>>

AcquireErrors == {"ResourceLockedError", "ExecutionError", "Error"}

\* The metrics registry throws in reportJobStarted (89), which is outside
\* the try of the routine: the routine rejects before getState, mutex.using
\* releases the lock and rejects, and the catch of run() logs the error
\* (113-124).
StartedThrows(j) ==
    /\ pending[j] > 0
    /\ faults < MaxFaults
    /\ faults' = faults + 1
    /\ MutexFree(ResourceSet(Job(j)))
    /\ LET t == Caught(Exited(Emit(NewAttempt(j), <<"acquired", "metricsError">>)), "Error") IN
        /\ done' = Outcome(t)
        /\ metrics' = Recorded(metrics, j, NewEvents(NewAttempt(j), t))
    /\ pending' = [pending EXCEPT ![j] = @ - 1]
    /\ hist' = [hist EXCEPT !.sinceAcq[j] = 0, !.attempts[j] = @ + 1]
    /\ UNCHANGED <<jobs, runner, att, lock, jobState>>

\* setState resolves and the success is reported (95-101), then
\* jobsDurationSeconds.observe throws in finally (109): await timeout is
\* skipped, the routine rejects, mutex.using releases the lock and rejects,
\* and the catch of run() logs the error (113-124).
ObserveThrows(a) ==
    /\ att[a].pc = "setState"
    /\ faults < MaxFaults
    /\ faults' = faults + 1
    /\ jobState' = SetState(jobState, att[a].job, att[a].ret)
    /\ lock' = MutexReleased(a)
    /\ LET t == Caught(Exited(Emit(att[a], <<"persisted", "completedOk", "metricsError">>)), "Error") IN
        /\ done' = Outcome(t)
        /\ metrics' = Recorded(metrics, att[a].job, NewEvents(att[a], t))
    /\ att' = Returned(a)
    /\ hist' = [hist EXCEPT !.persisted[att[a].job] = @ + 1]
    /\ UNCHANGED <<jobs, pending, runner>>

Next ==
    \/ \E r \in Replicas : Start(r)
    \/ \E r \in Replicas : \E i \in 1..Len(jobs) : TimerTick(r, i)
    \/ \E j \in Registered : AcquireOK(j)
    \/ \E j \in Registered : \E err \in AcquireErrors : AcquireFail(j, err)
    \/ \E a \in AttIds : GetStateOK(a)
    \/ \E a \in AttIds : GetStateFail(a)
    \/ \E a \in AttIds : \E v \in JobReturns(att[a].job, att[a].prev) : RunResolve(a, v)
    \/ \E a \in AttIds : RunReject(a)
    \/ \E a \in AttIds : SetStateOK(a)
    \/ \E a \in AttIds : SetStateFail(a)
    \/ \E a \in AttIds : ScopeExit(a)
    \/ \E a \in AttIds : MutexExpire(a)
    \/ Advance

Spec == Init /\ [][Next]_vars

SpecSpacing == InitSpacing /\ [][Next]_vars

SpecOpaque == InitOpaque /\ [][Next]_vars

SpecJobs == InitJobs /\ [][Next]_vars

SpecShared == InitShared /\ [][Next]_vars

SpecSolo == InitSolo /\ [][Next]_vars

SpecRequest == InitRequest /\ [][Next]_vars

\* The same, with the shutdown of the replica.
NextDispose ==
    \/ Next
    \/ \E r \in Replicas : Dispose(r)

SpecDispose == InitJobs /\ [][NextDispose]_vars

\* The same, with a metrics registry that can throw.
NextMetrics ==
    \/ Next
    \/ \E j \in Registered : StartedThrows(j)
    \/ \E a \in AttIds : ObserveThrows(a)

SpecMetrics == InitSolo /\ [][NextMetrics]_vars

----------------------------------------------------------------------------
(* Properties *)

\* the attempts of job j whose body is running
Running(j) == {a \in AttIds : att[a].job = j /\ att[a].pc = "running"}

\* the count held by the stored state of job j, 0 when there is none
StoredCount(j) ==
    IF jobState[j].present /\ jobState[j].state.k = "object" THEN jobState[j].state.n ELSE 0

\* C1, as stated: at no instant are two runs of the same job in flight,
\* over all the replicas, whatever the duration of the body.
C1_OneRunInFlight == \A j \in JobNames : Cardinality(Running(j)) <= 1

\* C1, amended: two runs of the same job are in flight together only when
\* one of them has run past frequencyMs since its acquisition and its lock
\* was reclaimed by the store; the runs whose attempt still owns the lock
\* are never two.
C1_OneOwnerRunInFlight ==
    \A j \in JobNames : \A a, b \in Running(j) :
        a # b => \E c \in {a, b} : ~Holds(c) /\ att[c].held >= Job(j).frequencyMs

\* C1: a run is in flight beside a run whose lock was reclaimed.
C1_Witness ==
    \E a, b \in Running("A") : a # b /\ Holds(b) /\ ~Holds(a)

\* C2, as stated: the starts of two successful runs of a job are at least
\* frequencyMs apart.
C2_RunStartsSpaced ==
    \A a \in AttIds : Has(att[a], "settled") => att[a].runGap >= Job(att[a].job).frequencyMs

\* C2, amended: the lock acquisitions of two attempts of a job are at least
\* frequencyMs apart (the minimum hold is timed from the acquisition, not
\* from the start of the run).
C2_AcquisitionsSpaced ==
    \A a \in AttIds : att[a].acqGap >= Job(att[a].job).frequencyMs

\* C2: a second run of the job has succeeded.
C2_Witness ==
    \E a \in AttIds : Has(att[a], "settled") /\ metrics[att[a].job].ok >= 1
                      /\ metrics[att[a].job].started >= 2

\* C3, as stated: the stored count of the counting job is the number of
\* successful runs whose result was persisted.
C3_CountIsPersistedRuns == StoredCount("A") = hist.persisted["A"]

\* C3, amended: the stored count of the counting job is the number of
\* successful runs whose result was persisted, as long as the store has
\* reclaimed no lock from an attempt in scope.
C3_CountIsSerialRuns == ~hist.reclaimed => StoredCount("A") = hist.persisted["A"]

\* C3: two runs in a row have persisted their result.
C3_Witness == ~hist.reclaimed /\ hist.persisted["A"] = 2 /\ jobState["A"].state = Obj(2)

\* the resources the registry gives job j: its name and its lockedResources
OwnResources(j) ==
    {j} \cup (IF Job(j).lockedResources.present
              THEN {Job(j).lockedResources.value[i] : i \in 1..Len(Job(j).lockedResources.value)}
              ELSE {})

\* the attempt is inside the lock scope
InScope(a) == a \in AttIds

\* C4: an attempt whose acquisition was denied (ResourceLockedError or
\* ExecutionError) resolved having logged the denial at debug level and
\* nothing else: no getState, no run, no setState, no metric.
C4_DeniedIsSilent ==
    (Has(done, "ResourceLockedError") \/ Has(done, "ExecutionError")) =>
        /\ done.pc = "resolved"
        /\ done.log \in {<<"ResourceLockedError", "log.debug">>, <<"ExecutionError", "log.debug">>}

\* C4: an attempt was denied the lock held by another attempt of its job.
C4_Witness ==
    /\ done.log = <<"ResourceLockedError", "log.debug">>
    /\ \E a \in AttIds : Holds(a) /\ att[a].job = done.job

\* C5: whatever the failures of a job, each job of a started replica keeps
\* its one timer, and a call waiting for the lock of its job is held up by
\* an attempt of its own job only, never by one of another job.
C5_FailureStaysLocal ==
    /\ \A r \in Replicas : runner[r].status = "started" =>
          \A j \in Registered :
              Cardinality({i \in 1..Len(runner[r].disposables) : runner[r].disposables[i].job = j}) = 1
    /\ \A j \in Registered :
          (pending[j] > 0 /\ \A a \in AttIds : Holds(a) => att[a].job # j)
              => ENABLED AcquireOK(j)

\* C5: job A has failed in its first run and in the run of its tick, and
\* an attempt of job C is about to take its lock.
C5_Witness ==
    /\ metrics["A"].fail >= 2 /\ metrics["A"].ok = 0 /\ hist.ticks["A"] >= 1
    /\ pending["C"] > 0 /\ MutexFree(OwnResources("C"))

\* C6: the step of start() launches, for every registered job, exactly one
\* attempt at once and arms exactly one timer, due a full interval later;
\* no timer has fired by then.
C6_StartRunsEveryJobOnce ==
    [][\A r \in Replicas : (runner[r].status = "new" /\ runner'[r].status = "started") =>
          \A j \in Registered :
              /\ pending'[j] = pending[j] + 1
              /\ Cardinality({i \in 1..Len(runner'[r].disposables) :
                                 runner'[r].disposables[i].job = j}) = 1
              /\ \A i \in 1..Len(runner'[r].disposables) :
                    runner'[r].disposables[i].job = j =>
                        runner'[r].disposables[i].wait = Job(j).frequencyMs
              /\ hist'.ticks[j] = hist.ticks[j]]_vars

\* C6: the replica has started; every job has its immediate attempt in
\* flight and no timer has fired or counted down.
C6_Witness ==
    /\ runner["r1"].status = "started"
    /\ \A j \in Registered :
          /\ pending[j] = 1 /\ hist.ticks[j] = 0
          /\ \E i \in 1..Len(runner["r1"].disposables) :
                runner["r1"].disposables[i] = Repeat(j, Job(j).frequencyMs)

\* C7, as stated: setState is called with, and the store holds, structured
\* values only; undefined, null and the primitives are ignored.
C7_OnlyStructuredIsPersisted ==
    /\ \A a \in AttIds : att[a].pc = "setState" => IsStructured(att[a].ret)
    /\ \A j \in JobNames : jobState[j].present => IsStructured(jobState[j].state)

\* C8: an attempt inside the lock scope is without its lock only after
\* frequencyMs since the acquisition, and an attempt that released had held
\* the lock for at least frequencyMs and had settled (metric and duration
\* recorded) first.
C8_MinimumHold ==
    /\ \A a \in AttIds : (InScope(a) /\ ~Holds(a)) => att[a].held >= Job(att[a].job).frequencyMs
    /\ Has(done, "released") =>
          /\ done.held >= Job(done.job).frequencyMs
          /\ Has(done, "settled") \/ Has(done, "rejected") \/ Has(done, "getStateRejected")
          /\ Before(done, "observed", "released")

\* C8: an attempt whose body resolved has released its lock.
C8_Witness == Has(done, "released") /\ Has(done, "settled") /\ Has(done, "completedOk")

\* the record of an attempt whose body rejected: one failure metric, no
\* success metric, no call of setState, and past the body
FailureHandled(t) ==
    Has(t, "rejected") =>
        /\ Count(t, "completedFail") = 1 /\ Count(t, "observed") = 1
        /\ ~Has(t, "completedOk") /\ ~Has(t, "setState") /\ ~Has(t, "persisted")
        /\ Before(t, "rejected", "completedFail")
        /\ t.pc \in {"holding", "resolved"}

\* C9: every attempt whose body rejected recorded exactly one failure
\* metric, no success metric, did not call setState and went on to resolve.
C9_BodyFailureHandled ==
    /\ \A a \in AttIds : FailureHandled(att[a])
    /\ FailureHandled(done)
    /\ Has(done, "rejected") => done.pc = "resolved" /\ Has(done, "released")

\* C9: an attempt whose body rejected has resolved.
C9_Witness == Has(done, "rejected") /\ Has(done, "released") /\ metrics[done.job].fail >= 1

\* the ids a frame of the counting job can have: one attempt is in the lock
\* scope, and one more for every lock that the store reclaimed
AllAttIds == {<<CountingJob.name, k>> : k \in 1..(1 + MaxFaults)}

\* time passes and a routine whose timeout fired returns
Fairness == WF_vars(Advance) /\ \A a \in AllAttIds : WF_vars(ScopeExit(a))

FairSpec == InitQuick /\ [][Next]_vars /\ Fairness

\* every lock is owned by an attempt inside its lock scope, for a resource
\* of its job
LocksAreOwned ==
    /\ AttIds \subseteq AllAttIds
    /\ \A x \in Resources : lock[x].holder # NoHolder =>
          InScope(lock[x].holder) /\ x \in OwnResources(att[lock[x].holder].job)

\* C10: no lock is left to an attempt that has returned, and an attempt
\* whose body has settled, by return or by throw, leaves the lock scope.
C10_LockIsReleased ==
    /\ []LocksAreOwned
    /\ \A a \in AllAttIds :
          (a \in AttIds /\ att[a].pc = "holding") ~> (~InScope(a) /\ ~Holds(a))

\* C10: after a release the lock has been acquired again.
C10_Witness ==
    /\ Has(done, "released")
    /\ \E a \in AttIds : att[a].job = done.job /\ Holds(a)

\* two attempts in the lock scope, of different jobs whose resource sets
\* intersect
Clashing(a, b) ==
    /\ a \in AttIds /\ b \in AttIds /\ att[a].job # att[b].job
    /\ OwnResources(att[a].job) \cap OwnResources(att[b].job) # {}

\* C11, as stated: two jobs whose resource sets intersect are never in the
\* lock scope at the same time.
C11_ClashingJobsExclude == \A a, b \in AttIds : ~Clashing(a, b)

\* C11, amended: an attempt that holds a resource holds every resource of
\* its job, its name and its lockedResources, for one duration; every held
\* resource is held by an attempt in the lock scope (a denied one holds
\* none); and two jobs whose resource sets intersect are in the lock scope
\* together only when one of them has lost its lock to the store after
\* frequencyMs.
C11_JointExclusion ==
    /\ \A a \in AttIds : Holds(a) =>
          \A x \in OwnResources(att[a].job) :
              lock[x].holder = a /\ lock[x].ttl = lock[att[a].job].ttl
    /\ \A x \in Resources : lock[x].holder # NoHolder =>
          lock[x].holder \in AttIds /\ x \in OwnResources(att[lock[x].holder].job)
    /\ \A a, b \in AttIds : Clashing(a, b) =>
          \E c \in {a, b} : ~Holds(c) /\ att[c].held >= Job(att[c].job).frequencyMs

\* C11: the stateless job was denied the lock while the sharing job holds
\* the shared resource, and the denied attempt holds nothing.
C11_Witness ==
    /\ done.job = "C" /\ done.log = <<"ResourceLockedError", "log.debug">>
    /\ lock["RC"].holder \in AttIds /\ att[lock["RC"].holder].job = "B"
    /\ lock["C"].holder = NoHolder /\ lock["B"].holder = lock["RC"].holder

\* some attempt of job j is in the lock scope
Entrant(j) == \E a \in AttIds : att[a].job = j

\* C12: of the calls that race for the free lock of a job one can enter
\* the lock scope; while it is there and the store has reclaimed nothing,
\* a call that waits for the same lock cannot enter and can only be denied;
\* and the step that denies a call changes neither the lock, the stored
\* state, the metrics nor the attempts in the lock scope, and logs the
\* denial at debug level.
C12_RaceHasOneWinner ==
    /\ [](\A j \in Registered :
            /\ (pending[j] > 0 /\ MutexFree(OwnResources(j))) => ENABLED AcquireOK(j)
            /\ (pending[j] > 0 /\ Entrant(j) /\ ~hist.reclaimed) =>
                  /\ ~ENABLED AcquireOK(j)
                  /\ ENABLED AcquireFail(j, "ResourceLockedError"))
    /\ [][\A j \in Registered :
            (pending'[j] < pending[j] /\ ~MutexFree(OwnResources(j))) =>
                /\ att' = att /\ lock' = lock /\ jobState' = jobState /\ metrics' = metrics
                /\ done'.job = j /\ Len(done'.log) = 2
                /\ done'.log[1] = "ResourceLockedError" => done'.log[2] = "log.debug"]_vars

\* C12: the two replicas started at the same moment; one call entered the
\* lock scope and the other was denied, before any time passed.
C12_Witness ==
    /\ \A r \in Replicas : runner[r].status = "started"
          /\ runner[r].disposables = ArmedTimers
    /\ pending["A"] = 0 /\ Cardinality(AttIds) = 1
    /\ \E a \in AttIds : att[a].job = "A" /\ att[a].held = 0 /\ Holds(a)
    /\ done.log = <<"ResourceLockedError", "log.debug">>
    /\ metrics["A"].started = 1

\* the attempts that are between their getState and the end of their setState
Updating == {a \in AttIds : att[a].pc \in {"running", "setState"}}

\* the step in which getState resolved for attempt a and job.run was
\* invoked with the value that was stored
RunGetsStored(a) ==
    (a \in AttIds /\ att[a].pc = "getState" /\ att'[a].pc = "running") =>
        att'[a].prev = PreviousState(att[a].job)

\* C13, as stated: the previous state passed to job.run is the value stored
\* when the attempt called getState, and from the getState of an attempt to
\* its own setState nobody else writes the state of the job: the stored
\* value is still the one the attempt read.
C13_NoLostUpdate ==
    /\ [][\A a \in AttIds : RunGetsStored(a)]_vars
    /\ [](\A a \in Updating : att[a].prev = PreviousState(att[a].job))

\* C13, amended: the previous state passed to job.run is the value stored
\* when the attempt called getState; and as long as the store has reclaimed
\* no lock from an attempt in scope, the stored value of the job is still
\* the one the attempt read, up to its own setState.
C13_NoLostUpdateWhileOwned ==
    /\ [][\A a \in AttIds : RunGetsStored(a)]_vars
    /\ [](~hist.reclaimed => \A a \in Updating : att[a].prev = PreviousState(att[a].job))

\* C13: a second attempt is about to store the successor of the state it
\* read, which is still the stored one.
C13_Witness ==
    /\ ~hist.reclaimed
    /\ \E a \in AttIds : /\ att[a].job = "A" /\ att[a].pc = "setState"
                         /\ att[a].prev = Obj(1) /\ att[a].ret = Obj(2)
    /\ jobState["A"].state = Obj(1)

\* the calls of run(job) that the loops of start() have made for job j
Launched(j) ==
    Cardinality({r \in Replicas : runner[r].status # "new"})
        * Cardinality({i \in 1..Len(jobs) : jobs[i].name = j})

\* C14: the acquisition attempts of a job, those that the mutex has
\* answered and those that still wait for its answer, are as many as the
\* timer ticks of the job plus the one immediate attempt of each started
\* replica: a denied attempt is neither queued nor retried, the next
\* attempt comes with a later tick.
C14_AttemptsAreTicksPlusStart ==
    \A j \in JobNames : hist.attempts[j] + pending[j] = hist.ticks[j] + Launched(j)

\* C14: the immediate attempt of the second replica was denied and the job
\* was attempted again by the next tick only.
C14_Witness ==
    /\ done.job = "A" /\ done.log = <<"ResourceLockedError", "log.debug">>
    /\ hist.ticks["A"] = 1 /\ Launched("A") = 2
    /\ hist.attempts["A"] = 3 /\ pending["A"] = 0 /\ metrics["A"].started = 1

\* every replica has disposed the collection that start() returned
AllDisposed == \A r \in Replicas : runner[r].status = "disposed"

\* the next step of the attempt a in the lock scope can be taken
Continues(a) ==
    /\ att[a].pc = "getState" => ENABLED GetStateOK(a)
    /\ att[a].pc = "running" =>
          ENABLED RunReject(a) /\ \E v \in JobReturns(att[a].job, att[a].prev) : ENABLED RunResolve(a, v)
    /\ att[a].pc = "setState" => ENABLED SetStateOK(a)
    /\ (att[a].pc = "holding" /\ TimeoutElapsed(att[a])) => ENABLED ScopeExit(a)

\* C15: once the collection is disposed no timer starts an attempt: no tick
\* is counted and no call of run(job) is added; the disposal itself leaves
\* the attempts in flight, their locks and the stored states as they are;
\* and after it every attempt in flight can still take its next step, up
\* to storing its structured result and releasing its lock.
C15_DisposeStopsTimersOnly ==
    /\ [][AllDisposed =>
            /\ hist'.ticks = hist.ticks
            /\ \A j \in JobNames : pending'[j] <= pending[j]]_vars
    /\ [][(\E r \in Replicas : runner[r].status = "started" /\ runner'[r].status = "disposed") =>
            /\ att' = att /\ pending' = pending /\ lock' = lock
            /\ jobState' = jobState /\ metrics' = metrics]_vars
    /\ [](AllDisposed =>
            /\ \A r \in Replicas : \A i \in 1..Len(jobs) : ~ENABLED TimerTick(r, i)
            /\ \A a \in AttIds : Continues(a)
            /\ \A j \in Registered :
                  (pending[j] > 0 /\ MutexFree(OwnResources(j))) => ENABLED AcquireOK(j))

\* C15: after the disposal, with both timers gone, the attempt of the
\* counting job is about to store its result and the attempt of the other
\* job still waits for its lock.
C15_Witness ==
    /\ AllDisposed /\ \A r \in Replicas : runner[r].disposables = <<>>
    /\ hist.ticks = [j \in JobNames |-> 0]
    /\ pending["C"] = 1
    /\ \E a \in AttIds : att[a].job = "A" /\ att[a].pc = "setState" /\ att[a].ret = Obj(1)

\* C16, as stated: an attempt whose acquisition failed with ExecutionError
\* is logged at error level and one that was denied with ResourceLockedError
\* at debug level; in both cases the attempt ends there, with nothing but
\* the error and its log line.
C16_StoreFailureLoggedAsError ==
    (done # NoAttempt /\ Len(done.log) >= 1
        /\ done.log[1] \in {"ExecutionError", "ResourceLockedError"}) =>
        /\ Len(done.log) = 2
        /\ done.log[1] = "ExecutionError" => done.log[2] = "log.error"
        /\ done.log[1] = "ResourceLockedError" => done.log[2] = "log.debug"

\* the timers of every started replica are armed, one per job
TimersArmed ==
    \A r \in Replicas : runner[r].status = "started" =>
        /\ Len(runner[r].disposables) = Len(jobs)
        /\ \A i \in 1..Len(jobs) : runner[r].disposables[i].job = jobs[i].name

\* C17: every attempt that has ended has resolved: either its routine ran
\* to the release of the lock, or mutex.using rejected and the error was
\* caught and logged, at error level when it is neither a
\* ResourceLockedError nor an ExecutionError; and the timers stay armed
\* whatever the outcome, the step that ends an attempt leaves them alone.
C17_AttemptsResolve ==
    /\ [](done # NoAttempt =>
            /\ done.pc = "resolved"
            /\ \/ done.log[Len(done.log)] = "released"
               \/ /\ Len(done.log) = 2 /\ done.log[1] \in AcquireErrors
                  /\ done.log[2] = IF done.log[1] = "Error" THEN "log.error" ELSE "log.debug")
    /\ []TimersArmed
    /\ [][done' # done => runner' = runner]_vars

\* C17: an acquisition failed with an unexpected error, and the tick that
\* followed it has its attempt in the lock scope.
C17_Witness ==
    /\ done.job = "A" /\ done.log = <<"Error", "log.error">>
    /\ hist.ticks["A"] = 1 /\ hist.attempts["A"] = 3
    /\ \E a \in AttIds : att[a].job = "A" /\ att[a].pc = "running" /\ att[a].held = 0

\* C18, as stated: an attempt that acquired the lock and met a throwing
\* metrics call has still invoked job.run and has still held the lock for
\* frequencyMs when it ends.
C18_MetricsFailuresAreHarmless ==
    (done # NoAttempt /\ Has(done, "acquired") /\ Has(done, "metricsError")) =>
        /\ Has(done, "run")
        /\ done.held >= Job(done.job).frequencyMs

\* what job j has under way: its waiting calls, the position and the log
\* of its attempts, the owners of its resources, its stored state and its
\* metrics
View(j) ==
    <<pending[j],
      [a \in {b \in AttIds : att[b].job = j} |-> <<att[a].pc, att[a].log>>],
      [x \in OwnResources(j) |-> lock[x].holder],
      jobState[j], metrics[j]>>

Disjoint(j, k) == j # k /\ OwnResources(j) \cap OwnResources(k) = {}

\* C19: jobs whose resource sets are disjoint do not hold each other up.
\* The step of start() launches the attempt of every job at once; a step of
\* an attempt of one job changes nothing of what the other job has under
\* way; and whatever the attempts of the other job are doing, a call whose
\* resources are free can acquire them.
C19_JobsAreIndependent ==
    /\ [][\A r \in Replicas : (runner[r].status = "new" /\ runner'[r].status = "started") =>
            \A j \in Registered : pending'[j] > pending[j]]_vars
    /\ [][(\A r \in Replicas : runner'[r].status = runner[r].status) =>
            \A j, k \in Registered :
                (Disjoint(j, k) /\ View(j)' # View(j)) => View(k)' = View(k)]_vars
    /\ [](\A k \in Registered :
            (pending[k] > 0 /\ \A x \in OwnResources(k) : lock[x].holder = NoHolder)
                => ENABLED AcquireOK(k))

\* C19: the body of the immediate attempt of job A is still running, a
\* whole interval after its acquisition, and the immediate attempt of job C
\* has run and is in its minimum hold.
C19_Witness ==
    /\ Disjoint("A", "C")
    /\ hist.ticks = [j \in JobNames |-> 0]
    /\ \E a \in AttIds : att[a].job = "A" /\ att[a].pc = "running" /\ att[a].held >= Interval("A")
    /\ \E c \in AttIds : att[c].job = "C" /\ att[c].pc = "holding" /\ Has(att[c], "completedOk")

\* the calls of the state store in the log of the attempt t are in order:
\* one getState, before job.run, and at most one setState, after job.run
\* has resolved
StoreCallsInOrder(t) ==
    Has(t, "acquired") =>
        /\ Count(t, "getState") = 1
        /\ Before(t, "getState", "run")
        /\ Count(t, "setState") <= 1
        /\ Has(t, "setState") => Before(t, "settled", "setState")

\* C20, as stated: every attempt that acquired the lock calls getState once,
\* before job.run, and setState at most once, only after job.run resolved
\* with a structured value; and a stored state is never deleted.
C20_StateLifecycle ==
    /\ [](StoreCallsInOrder(done) /\ \A a \in AttIds : StoreCallsInOrder(att[a]))
    /\ [](\A a \in AttIds : Has(att[a], "setState") /\ att[a].pc = "setState"
                                => IsStructured(att[a].ret))
    /\ [][\A j \in JobNames : jobState[j].present => jobState'[j].present]_vars

\* the state of the attempt state machine that an event of the log enters,
\* "" when the event enters none: Locked is the routine up to the try of
\* line 91, Running the try (getState, job.run, setState), LockDenied the
\* catch around mutex.using
PhaseOf(e) ==
    CASE e = "acquired" -> "Locked"
      [] e \in {"getState", "run", "settled", "setState", "persisted",
                "rejected", "getStateRejected", "setStateRejected"} -> "Running"
      [] e = "completedOk" -> "Succeeded"
      [] e = "completedFail" -> "Failed"
      [] e = "released" -> "ReleasingLock"
      [] e \in AcquireErrors -> "LockDenied"
      [] OTHER -> ""

\* the states an attempt went through, read off its log
RECURSIVE Phases(_)
Phases(log) ==
    IF log = <<>> THEN <<>>
    ELSE LET front == Phases(SubSeq(log, 1, Len(log) - 1))
             ph == PhaseOf(log[Len(log)]) IN
         IF ph = "" \/ (front # <<>> /\ front[Len(front)] = ph) THEN front
         ELSE Append(front, ph)

IsPrefix(p, q) == Len(p) <= Len(q) /\ p = SubSeq(q, 1, Len(p))

\* the paths of the attempt state machine, between LockAcquiring and Idle
AttemptPaths ==
    { <<"LockDenied">>,
      <<"Locked", "Running", "Succeeded", "ReleasingLock">>,
      <<"Locked", "Running", "Failed", "ReleasingLock">> }

\* C21: every attempt follows the state machine. An attempt that has ended
\* went through LockDenied alone, or through Locked, Running, Succeeded or
\* Failed, and ReleasingLock, in this order; an attempt in the lock scope is
\* part of the way along the second path, past Locked, and before
\* ReleasingLock; a call that waits in mutex.using (LockAcquiring) has no
\* attempt state yet.
C21_AttemptStateMachine ==
    /\ done # NoAttempt => Phases(done.log) \in AttemptPaths
    /\ \A a \in AttIds :
          /\ \E q \in AttemptPaths : IsPrefix(Phases(att[a].log), q)
          /\ Len(Phases(att[a].log)) \in 2..3
          /\ Phases(att[a].log)[1] = "Locked"
          /\ att[a].pc = "holding" <=> Len(Phases(att[a].log)) = 3

\* C21: an attempt has gone the whole way through Failed, and the next one
\* is in Running.
C21_Witness ==
    /\ Phases(done.log) = <<"Locked", "Running", "Failed", "ReleasingLock">>
    /\ \E a \in AttIds : Phases(att[a].log) = <<"Locked", "Running">> /\ att[a].pc = "running"

\* the place of an event in the order of the routine (runner.ts 85-112),
\* 0 for the events that the order does not place
Rank(e) ==
    CASE e = "acquired" -> 1
      [] e = "started" -> 2
      [] e = "getState" -> 3
      [] e = "run" -> 4
      [] e = "persisted" -> 5
      [] e \in {"completedOk", "completedFail"} -> 6
      [] e = "observed" -> 7
      [] e = "released" -> 8
      [] OTHER -> 0

\* the placed events of the log t.log occur once at most and in the order
\* of their ranks
InOrder(t) ==
    \A i, k \in 1..Len(t.log) :
        (i < k /\ Rank(t.log[i]) > 0 /\ Rank(t.log[k]) > 0) => Rank(t.log[i]) < Rank(t.log[k])

\* C22: in every attempt that acquired the lock the events occur in the
\* order: lock acquired, started metric, state loaded, job.run invoked,
\* state persisted (when it is), completion metric, duration observed, lock
\* released; the release comes after the minimum hold; and an attempt that
\* has ended in the lock scope has all of them but, at most, the run and
\* the persisting.
C22_ScopeOrder ==
    /\ \A a \in AttIds : InOrder(att[a]) /\ Before(att[a], "started", "getState")
    /\ Has(done, "acquired") =>
          /\ InOrder(done) /\ Before(done, "started", "getState")
          /\ \A e \in {"acquired", "started", "getState", "observed", "released"} :
                Count(done, e) = 1
          /\ Count(done, "completedOk") + Count(done, "completedFail") = 1
          /\ done.held >= Job(done.job).frequencyMs

\* C22: an attempt has gone through the whole order, persisting included.
C22_Witness ==
    /\ done.log = <<"acquired", "started", "getState", "run", "settled", "setState",
                    "persisted", "completedOk", "observed", "released">>
    /\ done.held >= Job(done.job).frequencyMs

\* C23: an attempt in the lock scope has observed its duration once when
\* its try has ended, in success or in failure, and not before; an attempt
\* that has left the scope observed it once, before the release; and the
\* durations observed for a job are as many as its completions.
C23_DurationObservedOnce ==
    /\ \A a \in AttIds :
          Count(att[a], "observed") = IF att[a].pc = "holding" THEN 1 ELSE 0
    /\ Has(done, "acquired") =>
          Count(done, "observed") = 1 /\ Before(done, "observed", "released")
    /\ \A j \in JobNames : metrics[j].observed = metrics[j].ok + metrics[j].fail

\* C23: one attempt of the job has succeeded and one has failed, both
\* observed; the second is in its minimum hold.
C23_Witness ==
    /\ metrics["A"].ok = 1 /\ metrics["A"].fail = 1 /\ metrics["A"].observed = 2
    /\ Has(done, "released")
    /\ \E a \in AttIds : att[a].pc = "holding" /\ ~TimeoutElapsed(att[a])

\* an attempt of job j is in the lock scope and owns all the locks of j
Owner(j) ==
    \E a \in AttIds : att[a].job = j /\ \A x \in OwnResources(j) : lock[x].holder = a

\* C24: on the one replica, a timer that is due fires whatever the attempts
\* in flight (no guard in the process holds it back) and its callback calls
\* mutex.using; while an attempt of the job owns the lock, running or in
\* its minimum hold, a call of the job that waits in mutex.using cannot
\* enter and is denied; and the denial runs nothing: no attempt, stored
\* state or metric changes.
C24_OnlyTheLockSuppresses ==
    /\ [](\A r \in Replicas : \A i \in 1..Len(runner[r].disposables) :
            (runner[r].status = "started" /\ runner[r].disposables[i].wait = 0
                /\ Ticks < MaxTicks) => ENABLED TimerTick(r, i))
    /\ [][\A j \in JobNames : hist'.ticks[j] > hist.ticks[j] => pending'[j] = pending[j] + 1]_vars
    /\ [](\A j \in Registered : (pending[j] > 0 /\ Owner(j)) =>
            ~ENABLED AcquireOK(j) /\ ENABLED AcquireFail(j, "ResourceLockedError"))
    /\ [][\A j \in Registered : (pending'[j] < pending[j] /\ Owner(j)) =>
            att' = att /\ jobState' = jobState /\ metrics' = metrics /\ lock' = lock]_vars

\* C24: the tick of the replica fired while its first attempt was in the
\* lock scope, and its call was denied; the first attempt still owns the
\* lock and nothing else was started.
C24_Witness ==
    /\ Cardinality(Replicas) = 1
    /\ hist.ticks["A"] = 1 /\ hist.attempts["A"] = 2 /\ pending["A"] = 0
    /\ done.log = <<"ResourceLockedError", "log.debug">>
    /\ Owner("A") /\ Cardinality(AttIds) = 1 /\ metrics["A"].started = 1

\* the entries of job.lockedResources, none when it is absent
Listed(job) == IF job.lockedResources.present THEN job.lockedResources.value ELSE <<>>

\* C25: the resource list of the lock request of a job is job.name followed
\* by the entries of job.lockedResources in their order, job.name alone when
\* there are none, and the duration is job.frequencyMs; an attempt that has
\* just acquired owns exactly the listed resources, each for frequencyMs.
C25_LockRequest ==
    \A j \in Registered :
        LET job == Job(j) IN
        /\ Len(LockResources(job)) = 1 + Len(Listed(job))
        /\ LockResources(job)[1] = job.name
        /\ \A i \in 1..Len(Listed(job)) : LockResources(job)[i + 1] = Listed(job)[i]
        /\ LockDuration(job) = job.frequencyMs
        /\ \A a \in AttIds : (att[a].job = j /\ att[a].held = 0) =>
              \A x \in Resources :
                  IF x \in {j} \cup {Listed(job)[i] : i \in 1..Len(Listed(job))}
                  THEN lock[x] = [holder |-> a, ttl |-> job.frequencyMs]
                  ELSE lock[x].holder # a

\* C25: an attempt of a job with two locked resources, listed against the
\* alphabet, has just acquired its three locks.
C25_Witness ==
    /\ Job("A").lockedResources = Present(<<"RC", "RB">>) /\ Job("A").frequencyMs = 2
    /\ \E a \in AttIds : att[a].held = 0
          /\ \A x \in {"A", "RB", "RC"} : lock[x] = [holder |-> a, ttl |-> 2]

\* The counting job on two replicas that can crash.
NextCrash ==
    \/ Next
    \/ \E r \in Replicas : \E a \in AttIds : Crash(r, a)
    \/ \E a \in AllAttIds : OrphanExpire(a)

SpecCrash == InitQuick /\ [][NextCrash]_vars

\* time passes, the store expires the locks of dead owners, the mutex
\* grants a free lock to a waiting call and getState answers
CrashFairness ==
    /\ WF_vars(Advance)
    /\ \A a \in AllAttIds : WF_vars(OrphanExpire(a))
    /\ \A j \in {QuickJob.name} : WF_vars(AcquireOK(j))
    /\ \A a \in AllAttIds : WF_vars(a \in AttIds /\ GetStateOK(a))

FairCrash == SpecCrash /\ CrashFairness

\* a lock is owned by an attempt that is no longer there
Orphaned == \E x \in Resources : lock[x].holder # NoHolder /\ lock[x].holder \notin AttIds

\* C26: a crash changes neither the stored state nor the lock; when it
\* hits an attempt between the return of job.run and the end of setState,
\* of a job whose lock was never reclaimed, the stored state is still the
\* one the attempt had read; the lock of the dead attempt is freed by its
\* expiry; and, no further failure occurring, a call that then waits for
\* the free lock acquires it and runs the job with the stored state.
C26_CrashLosesTheIncrementOnly ==
    /\ [][\A r \in Replicas : (runner[r].status = "started" /\ runner'[r].status = "crashed") =>
            /\ jobState' = jobState /\ lock' = lock /\ metrics' = metrics
            /\ \A a \in AttIds : (att[a].pc = "setState" /\ ~hist.reclaimed) =>
                  /\ att[a].prev = PreviousState(att[a].job)
                  /\ att[a].ret = CountingReturn(att[a].prev)]_vars
    /\ Orphaned ~> ~Orphaned
    /\ (/\ hist.crash.pc = "setState" /\ AttIds = {} /\ faults = MaxFaults
        /\ pending[QuickJob.name] > 0 /\ MutexFree(OwnResources(QuickJob.name)))
          ~> (\E a \in AttIds : /\ att[a].pc = "running"
                                /\ att[a].prev = PreviousState(att[a].job))

\* C26: a replica crashed in setState with the first count unsaved; the
\* lock has expired and the attempt of the other replica's tick is running
\* with no previous state, as the first one did.
C26_Witness ==
    /\ hist.crash = [pc |-> "setState", prev |-> Undefined]
    /\ ~jobState["A"].present /\ ~Orphaned
    /\ \E r \in Replicas : runner[r].status = "started"
    /\ hist.ticks["A"] = 1
    /\ \E a \in AttIds : att[a].pc = "running" /\ att[a].prev = Undefined /\ Holds(a)

\* the attempts of job j that have recorded their started metric and not
\* yet their completion metric
Uncompleted(j) ==
    {a \in AttIds : att[a].job = j /\ att[a].pc \in {"getState", "running", "setState"}}

\* the completion metrics in the log of t
Completions(t) == Count(t, "completedOk") + Count(t, "completedFail")

\* C27: for every job the completions, successes plus failures, are the
\* started metrics less the attempts that are between the two; every
\* attempt in the lock scope has recorded one started metric, and one
\* completion exactly when its try has ended; an attempt that has left the
\* scope recorded one of each.
C27_MetricsPaired ==
    /\ \A j \in JobNames :
          /\ metrics[j].ok + metrics[j].fail <= metrics[j].started
          /\ metrics[j].started - (metrics[j].ok + metrics[j].fail) = Cardinality(Uncompleted(j))
    /\ \A a \in AttIds :
          /\ Count(att[a], "started") = 1
          /\ Completions(att[a]) = IF att[a].pc = "holding" THEN 1 ELSE 0
    /\ Has(done, "acquired") => Count(done, "started") = 1 /\ Completions(done) = 1

\* C27: two attempts of the job have started; one has failed and left, the
\* other has not completed yet.
C27_Witness ==
    /\ metrics["A"].started = 2 /\ metrics["A"].fail = 1 /\ metrics["A"].ok = 0
    /\ Cardinality(Uncompleted("A")) = 1
    /\ Has(done, "completedFail") /\ Has(done, "released")

\* The counting job on one replica, with a coordination store that can fail
\* at the release.
NextRelease ==
    \/ Next
    \/ \E a \in AttIds : ReleaseFails(a)
    \/ \E a \in AllAttIds : OrphanExpire(a)

SpecRelease == InitSolo /\ [][NextRelease]_vars

\* C28, as stated: an attempt that ended on the debug-level path of the
\* catch around mutex.using has not invoked the body and has written no
\* state and no metric, also when the ExecutionError came after the body.
C28_DebugPathMeansNoRun ==
    (done # NoAttempt /\ Has(done, "log.debug")) =>
        /\ ~Has(done, "run") /\ ~Has(done, "getState") /\ ~Has(done, "persisted")
        /\ ~Has(done, "started") /\ Completions(done) = 0 /\ ~Has(done, "observed")

\* the record of an attempt whose getState rejected: no job.run, no
\* setState, one started metric, one failure metric and no success metric,
\* one observed duration, and past its try
ReadFailureHandled(t) ==
    Has(t, "getStateRejected") =>
        /\ ~Has(t, "run") /\ ~Has(t, "setState") /\ ~Has(t, "persisted")
        /\ Count(t, "started") = 1 /\ Count(t, "completedFail") = 1
        /\ Count(t, "completedOk") = 0 /\ Count(t, "observed") = 1
        /\ t.pc \in {"holding", "resolved"}

\* C29: an attempt whose getState rejected has not invoked job.run nor
\* called setState, and has recorded one started metric, one failure
\* completion and one duration; it owns its lock until frequencyMs have
\* passed since the acquisition, and when it has ended it has resolved,
\* after the minimum hold, with the release and no error from mutex.using.
C29_ReadFailureHandled ==
    /\ \A a \in AttIds :
          /\ ReadFailureHandled(att[a])
          /\ (Has(att[a], "getStateRejected") /\ att[a].held < Job(att[a].job).frequencyMs)
                => Holds(a)
    /\ ReadFailureHandled(done)
    /\ Has(done, "getStateRejected") =>
          /\ done.pc = "resolved" /\ done.log[Len(done.log)] = "released"
          /\ done.held >= Job(done.job).frequencyMs
          /\ \A e \in AcquireErrors : ~Has(done, e)

\* C29: an attempt whose getState rejected has ended, after its minimum
\* hold, with one failure recorded and the stored state as it was.
C29_Witness ==
    /\ Has(done, "getStateRejected") /\ Has(done, "released")
    /\ metrics["A"].started = 1 /\ metrics["A"].fail = 1 /\ metrics["A"].observed = 1
    /\ ~jobState["A"].present

\* the record of an attempt that called setState: a success is reported
\* only after setState has completed, and a rejection of setState is
\* reported as one failure and no success
WriteReported(t) ==
    /\ (Has(t, "setState") /\ Has(t, "completedOk")) =>
          Count(t, "persisted") = 1 /\ Before(t, "persisted", "completedOk")
    /\ Has(t, "setStateRejected") =>
          /\ Count(t, "completedFail") = 1 /\ Count(t, "completedOk") = 0
          /\ ~Has(t, "persisted") /\ Before(t, "setStateRejected", "completedFail")
    /\ (Has(t, "setState") /\ t.pc \in {"holding", "resolved"}) =>
          Has(t, "persisted") # Has(t, "setStateRejected")

\* C30: an attempt whose job.run resolved with a value to persist reports
\* a success only after setState has completed; when setState rejects, it
\* reports one failure and no success, and the step in which setState
\* rejects leaves the stored state as it was.
C30_SuccessMeansPersisted ==
    /\ [](WriteReported(done) /\ \A a \in AttIds : WriteReported(att[a]))
    /\ [][\A a \in AttIds :
            (att[a].pc = "setState" /\ a \in DOMAIN att' /\ Has(att'[a], "setStateRejected"))
                => jobState' = jobState]_vars

\* C30: job.run resolved with a value to persist, setState rejected, and the attempt
\* ended with one failure reported and nothing stored.
C30_Witness ==
    /\ Has(done, "setStateRejected") /\ Has(done, "released")
    /\ metrics[done.job].fail = 1 /\ metrics[done.job].ok = 0
    /\ ~jobState[done.job].present

\* the positions and logs of the attempts of job j in the lock scope
Positions(j) == [a \in {b \in AttIds : att[b].job = j} |-> <<att[a].pc, att[a].log>>]

\* the step is one of an attempt of job j: a waiting call of j is answered,
\* or an attempt of j enters, moves on or leaves
Moves(j) == pending'[j] < pending[j] \/ Positions(j)' # Positions(j)

\* C31: a step of an attempt of a job leaves the stored state and the
\* metric counts of every other job name as they were; a stored state or a
\* metric count changes only in a step of an attempt of its own job; and
\* the previous state handed to job.run is the one stored under the name
\* of the job.
C31_PerJobIsolation ==
    /\ [][\A j \in Registered : Moves(j) =>
            \A k \in JobNames \ {j} : jobState'[k] = jobState[k] /\ metrics'[k] = metrics[k]]_vars
    /\ [][\A k \in JobNames :
            (jobState'[k] # jobState[k] \/ metrics'[k] # metrics[k]) => k \in Registered /\ Moves(k)]_vars
    /\ [][\A a \in AttIds : RunGetsStored(a)]_vars

\* C31: job B has stored a state and job C has run after it; each has its
\* own counts, C has no stored state and B's is as B wrote it.
C31_Witness ==
    /\ jobState["B"] = [present |-> TRUE, state |-> Obj(1)] /\ ~jobState["C"].present
    /\ metrics["B"].ok = 1 /\ metrics["B"].started = 1
    /\ metrics["C"].ok = 1 /\ metrics["C"].started = 1
    /\ done.job = "C" /\ Has(done, "released")

====
